---- MODULE Spec2Model ----
(***************************************************************************)
(* Model of src/index.js: an edge worker that validates an OIDC bearer     *)
(* token (JWKS retrieval and caching, JWT parsing, signature verification, *)
(* standard-claims checks) and forwards the request to a backend.          *)
(*                                                                         *)
(* Every `await` of the source is a scheduling point: the code between two *)
(* awaits runs atomically on the single JavaScript thread and is one       *)
(* action here.  Thrown exceptions are modelled as values (Throw) that the *)
(* catch block of the request handler turns into a 401 response.           *)
(***************************************************************************)
EXTENDS Integers, Sequences, FiniteSets, TLC

\* ------------------------------------------------------------------------
\* Bounds of the model
\* ------------------------------------------------------------------------
\* number of request slots that can be in flight at the same time
NumReq == 2
\* total number of inbound requests in one behaviour
MaxArrivals == 2
\* number of clock advances in one behaviour
MaxTicks == 2

Reqs == 1..NumReq

\* ------------------------------------------------------------------------
\* Program constants
\* ------------------------------------------------------------------------
OIDC_ISSUER == "https://integrator-2817162.okta.com/oauth2/default"
OTHER_ISSUER == "https://idp.example"
API_BACKEND == "https://api.internal.example.com"
\* the refresh period of getJWKS, in milliseconds
TTL == 10 * 60 * 1000
\* the factor that turns exp (epoch seconds) into milliseconds
MsPerSec == 1000

\* ------------------------------------------------------------------------
\* JavaScript values
\* ------------------------------------------------------------------------
\* JSON null (also the initial value of jwksCache)
Null == [t |-> "null"]
\* a JSON object; o is a function from field names to values
Obj(o) == [t |-> "object", o |-> o]
\* the result of reading a property
Undefined == [def |-> FALSE]
Val(v) == [def |-> TRUE, v |-> v]
\* obj.f for a JSON object obj (undefined when the field is absent)
Prop(obj, f) == IF f \in DOMAIN obj.o THEN Val(obj.o[f]) ELSE Undefined
\* JavaScript truthiness of a cached JSON value (null is falsy, objects truthy)
Truthy(v) == v.t # "null"

\* a completed evaluation: a value, or a thrown exception.  `msg` is the
\* exception's message (its class name for the host's own exceptions) and
\* `line` the source line that threw it.
Ok(v) == [ok |-> TRUE, v |-> v]
Throw(msg, line) == [ok |-> FALSE, msg |-> msg, line |-> line]

\* ------------------------------------------------------------------------
\* Wire format.  A raw token is a sequence of pieces: a dot, or a chunk, a
\* non-empty run of characters without a dot.  A chunk records the alphabet
\* its characters are drawn from ("std": only characters common to base64
\* and base64url; "url": at least one of '-' and '_', which only base64url
\* has) and the text its characters decode to.
\* ------------------------------------------------------------------------
Dot == [dot |-> TRUE]
Chunk(chars, text) == [dot |-> FALSE, chars |-> chars, text |-> text]

\* decoded texts
JsonText(v) == [kind |-> "json", v |-> v]
GarbageText == [kind |-> "garbage"]
EmptyText == [kind |-> "empty"]
\* the bytes of an RSASSA-PKCS1-v1_5 / SHA-256 signature made with the
\* private key of modulus n over the byte string data
SigText(n, data) == [kind |-> "sig", n |-> n, data |-> data]

\* String.prototype.split("."): the segments between the dots, a segment
\* being the sequence of chunks between two dots (empty for an empty segment)
RECURSIVE SplitFrom(_, _, _, _)
SplitFrom(raw, i, cur, acc) ==
    IF i > Len(raw) THEN Append(acc, cur)
    ELSE IF raw[i].dot THEN SplitFrom(raw, i + 1, << >>, Append(acc, cur))
    ELSE SplitFrom(raw, i + 1, Append(cur, raw[i]), acc)

Split(raw) == SplitFrom(raw, 1, << >>, << >>)

\* atob(segment): forgiving-base64 decoding.  The empty string decodes to the
\* empty string; a character outside the base64 alphabet ('-' or '_') throws
\* InvalidCharacterError.
atob(seg, line) ==
    IF Len(seg) = 0 THEN Ok(EmptyText)
    ELSE IF \E i \in 1..Len(seg) : seg[i].chars # "std"
         THEN Throw("InvalidCharacterError", line)
    ELSE Ok(seg[1].text)   \* a segment of the inputs below is one chunk

\* JSON.parse(text)
JSONparse(text, line) ==
    IF text.kind = "json" THEN Ok(text.v) ELSE Throw("SyntaxError", line)

\* ------------------------------------------------------------------------
\* Inputs: keys, token segments and raw tokens
\* ------------------------------------------------------------------------
\* JsonWebKey records as published by the issuer
Jwk1 == Obj([kty |-> "RSA", kid |-> "k1", n |-> "n1"])
Jwk2 == Obj([kty |-> "RSA", kid |-> "k2", n |-> "n2"])
JwkEC == Obj([kty |-> "EC", kid |-> "k3", n |-> "n3"])
JwkNoKid == Obj([kty |-> "RSA", n |-> "n4"])

\* key sets the issuer publishes over time (k1 is rotated out in the second)
KeySets == { <<Jwk1>>, <<Jwk2, JwkEC>>, <<Jwk1, JwkNoKid>> }

Header(kid) == Chunk("std", JsonText(Obj([alg |-> "RS256", kid |-> kid])))
HeaderNoKid == Chunk("std", JsonText(Obj([alg |-> "RS256"])))

IssParts == { [iss |-> OIDC_ISSUER], [iss |-> OTHER_ISSUER] }
\* exp in epoch seconds; << >> is the payload part without the field
ExpParts == { << >>, [exp |-> 1000], [exp |-> 1001], [exp |-> 2000] }
SubParts == { << >>, [sub |-> ""], [sub |-> "u1"] }
PayloadObjs == { Obj(i @@ e @@ s) : i \in IssParts, e \in ExpParts, s \in SubParts }

Payload(obj) == Chunk("std", JsonText(obj))
GoodObj == Obj([iss |-> OIDC_ISSUER, exp |-> 2000, sub |-> "u1"])

\* the bytes that are signed: the first two segments joined by a dot
SigningInput(h, p) == <<h, Dot, p>>
\* a signature segment: the signature of key n over h.p, in alphabet chars
SigSeg(chars, n, h, p) == Chunk(chars, SigText(n, SigningInput(h, p)))
\* the compact serialization of header chunk h and payload chunk p, signed
\* with key n
Signed(h, p, n) == <<h, Dot, p, Dot, SigSeg("std", n, h, p)>>

H1 == Header("k1")
GP == Payload(GoodObj)

\* tokens that differ from a valid one in the payload's claims
ClaimTokens == { Signed(H1, Payload(o), "n1") : o \in PayloadObjs }

\* tokens that differ from a valid one in the signature segment
SigTokens ==
    { <<H1, Dot, GP, Dot, SigSeg("url", "n1", H1, GP)>>,            \* valid, has '-' or '_'
      <<H1, Dot, GP, Dot, Chunk("std", GarbageText)>>,              \* tampered
      <<H1, Dot, GP, Dot, Chunk("url", GarbageText)>>,              \* tampered, has '-' or '_'
      <<H1, Dot, GP, Dot, SigSeg("std", "n2", H1, GP)>>,            \* another key
      <<H1, Dot, GP, Dot,
        SigSeg("std", "n1", H1, Payload(Obj([iss |-> OIDC_ISSUER, sub |-> "u2"])))>>,
      <<H1, Dot, GP, Dot>> }                                        \* empty segment

\* tokens that differ from a valid one in the header segment
HeaderTokens ==
    { Signed(Header("k2"), GP, "n2"),
      Signed(Header("k3"), GP, "n3"),
      Signed(Header("k9"), GP, "n1"),
      Signed(HeaderNoKid, GP, "n4"),
      Signed(Chunk("url", JsonText(Obj([alg |-> "RS256", kid |-> "k1"]))), GP, "n1"),
      Signed(Chunk("std", GarbageText), GP, "n1"),
      Signed(Chunk("std", JsonText(Null)), GP, "n1"),
      <<Dot, GP, Dot, SigSeg("std", "n1", H1, GP)>> }

\* tokens that differ from a valid one in the encoding of the payload segment
PayloadTokens ==
    { Signed(H1, Chunk("url", JsonText(GoodObj)), "n1"),
      Signed(H1, Chunk("std", JsonText(Null)), "n1"),
      Signed(H1, Chunk("std", GarbageText), "n1"),
      <<H1, Dot, Dot, SigSeg("std", "n1", H1, GP)>> }

\* tokens with another number of segments
CountTokens ==
    { << >>, <<H1>>, <<H1, Dot, GP>>, Signed(H1, GP, "n1") \o <<Dot, GP>> }

Tokens == ClaimTokens \cup SigTokens \cup HeaderTokens \cup PayloadTokens \cup CountTokens

\* the Authorization header of a request: absent, or a scheme prefix
\* followed by the rest of the value
NoAuth == [present |-> FALSE]
Auth(scheme, rest) == [present |-> TRUE, scheme |-> scheme, rest |-> rest]
Auths == {NoAuth} \cup { Auth("Basic ", << >>) } \cup { Auth("Bearer ", t) : t \in Tokens }

\* ------------------------------------------------------------------------
\* validateJWT, up to its first await
\* ------------------------------------------------------------------------
\* lines 30-35: split the token and decode header and payload
ParseStage(token) ==
    LET parts == Split(token) IN
    IF Len(parts) # 3 THEN Throw("Invalid JWT format", 31)
    ELSE LET hb == atob(parts[1], 34) IN
    IF ~hb.ok THEN hb
    ELSE LET hj == JSONparse(hb.v, 34) IN
    IF ~hj.ok THEN hj
    ELSE LET pb == atob(parts[2], 35) IN
    IF ~pb.ok THEN pb
    ELSE LET pj == JSONparse(pb.v, 35) IN
    IF ~pj.ok THEN pj
    ELSE Ok([headerB64 |-> parts[1], payloadB64 |-> parts[2],
             signatureB64 |-> parts[3], header |-> hj.v, payload |-> pj.v])

\* a freshness test that still serves an entry of age TTL
CacheFreshAtTTL(cache, fetchedAt, now) == Truthy(cache) /\ now - fetchedAt <= TTL

\* line 15: the cached key set is served when it is set and younger than TTL
CacheFresh(cache, fetchedAt, now) == Truthy(cache) /\ now - fetchedAt < TTL

\* ------------------------------------------------------------------------
\* validateJWT, after getJWKS has returned jwks
\* ------------------------------------------------------------------------
\* line 39, jwks.keys.find(k => k.kid === header.kid): the first match
RECURSIVE FindFrom(_, _, _)
FindFrom(keys, header, i) ==
    IF i > Len(keys) THEN Ok(Undefined)
    ELSE IF header.t = "null" THEN Throw("TypeError", 39)
    ELSE IF Prop(keys[i], "kid") = Prop(header, "kid") THEN Ok(Val(keys[i]))
    ELSE FindFrom(keys, header, i + 1)

\* a lookup that falls back to the first key when no kid matches
FindKeyOrFirst(jwks, header) ==
    IF jwks.t = "null" THEN Throw("TypeError", 39)
    ELSE IF ~Prop(jwks, "keys").def THEN Throw("TypeError", 39)
    ELSE LET found == FindFrom(Prop(jwks, "keys").v, header, 1)
             keys == Prop(jwks, "keys").v IN
         IF found.ok /\ ~found.v.def /\ Len(keys) > 0 THEN Ok(Val(keys[1])) ELSE found

FindKey(jwks, header) ==
    IF jwks.t = "null" THEN Throw("TypeError", 39)
    ELSE IF ~Prop(jwks, "keys").def THEN Throw("TypeError", 39)
    ELSE FindFrom(Prop(jwks, "keys").v, header, 1)

\* lines 43-52: an RSA public key is imported; another key type is refused
ImportKey(jwk) ==
    IF Prop(jwk, "kty") = Val("RSA") THEN Ok(jwk) ELSE Throw("DataError", 43)

\* line 55: the signing input is the wire text of the first two segments
SigningData(p) == p.headerB64 \o <<Dot>> \o p.payloadB64

\* line 57, crypto.subtle.verify: true iff the bytes are the signature of
\* the key's private half over data
SubtleVerify(key, signature, data) ==
    /\ signature.kind = "sig"
    /\ Val(signature.n) = Prop(key, "n")
    /\ signature.data = data

\* an issuer check that only asks for the field to be there
IssuerPresent(payload) == Prop(payload, "iss").def

\* line 61
IssuerOk(payload) == Prop(payload, "iss") = Val(OIDC_ISSUER)

\* an expiry check that turns a token away during its last second
ExpiredEarly(payload, now) ==
    /\ Prop(payload, "exp").def
    /\ (Prop(payload, "exp").v - 1) * MsPerSec < now

\* line 62: payload.exp * 1000 < Date.now(); an absent exp gives NaN, and
\* every comparison with NaN is false
Expired(payload, now) ==
    /\ Prop(payload, "exp").def
    /\ Prop(payload, "exp").v * MsPerSec < now

\* the checks of lines 39-64 with the expiry looked at before the issuer
VerifyStageExpFirst(p, jwks, now) ==
    LET found == FindKey(jwks, p.header) IN
    IF ~found.ok THEN found
    ELSE IF ~found.v.def THEN Throw("No matching JWK", 40)
    ELSE LET key == ImportKey(found.v.v) IN
    IF ~key.ok THEN key
    ELSE LET sig == atob(p.signatureB64, 56) IN
    IF ~sig.ok THEN sig
    ELSE IF ~SubtleVerify(key.v, sig.v, SigningData(p)) THEN Throw("Invalid signature", 58)
    ELSE IF p.payload.t = "null" THEN Throw("TypeError", 61)
    ELSE IF Expired(p.payload, now) THEN Throw("Token expired", 62)
    ELSE IF ~IssuerOk(p.payload) THEN Throw("Invalid issuer", 61)
    ELSE Ok(p.payload)

\* lines 39-64
VerifyStage(p, jwks, now) ==
    LET found == FindKey(jwks, p.header) IN
    IF ~found.ok THEN found
    ELSE IF ~found.v.def THEN Throw("No matching JWK", 40)
    ELSE LET key == ImportKey(found.v.v) IN
    IF ~key.ok THEN key
    ELSE LET sig == atob(p.signatureB64, 56) IN
    IF ~sig.ok THEN sig
    ELSE IF ~SubtleVerify(key.v, sig.v, SigningData(p)) THEN Throw("Invalid signature", 58)
    ELSE IF p.payload.t = "null" THEN Throw("TypeError", 61)
    ELSE IF ~IssuerOk(p.payload) THEN Throw("Invalid issuer", 61)
    ELSE IF Expired(p.payload, now) THEN Throw("Token expired", 62)
    ELSE Ok(p.payload)

\* a subject check that lets the empty string through
SubAbsent(claims) == ~Prop(claims, "sub").def

\* a handler that forwards whatever sub the Claims hold
SubUnchecked(claims) == FALSE

\* line 80, !claims.sub: an absent or empty sub is falsy
SubMissing(claims) == ~Prop(claims, "sub").def \/ Prop(claims, "sub").v = ""

\* ------------------------------------------------------------------------
\* The outside world: answers of the issuer and of the backend
\* ------------------------------------------------------------------------
\* fetch() rejects (connection refused, DNS failure, ...)
NetFail == [net |-> FALSE]
HttpResp(status, body) == [net |-> TRUE, status |-> status, body |-> body]
Statuses == {200, 500}

DiscoveryDoc == Obj([jwks_uri |-> "https://integrator-2817162.okta.com/oauth2/default/v1/keys"])
ErrorDoc == Obj([error |-> "server_error"])
JwksDoc(ks) == Obj([keys |-> ks])

DiscoveryBodies == { JsonText(DiscoveryDoc), JsonText(ErrorDoc), JsonText(Null), GarbageText }
JwksBodies ==
    { JsonText(JwksDoc(ks)) : ks \in KeySets } \cup { JsonText(ErrorDoc), JsonText(Null), GarbageText }

DiscoveryResponses == {NetFail} \cup { HttpResp(st, b) : st \in Statuses, b \in DiscoveryBodies }
JwksResponses == {NetFail} \cup { HttpResp(st, b) : st \in Statuses, b \in JwksBodies }
BackendResponses == {NetFail, HttpResp(200, GarbageText), HttpResp(500, GarbageText)}

\* fetch(url).then(r => r.json()) at the given line
FetchJson(resp, line) ==
    IF ~resp.net THEN Throw("TypeError", line) ELSE JSONparse(resp.body, line)

\* lines 20-23: the JWKS location read from the discovery answer
JwksUri(resp) ==
    LET cfg == FetchJson(resp, 20) IN
    IF ~cfg.ok THEN cfg
    ELSE IF cfg.v.t = "null" THEN Throw("TypeError", 21)
    ELSE IF ~Prop(cfg.v, "jwks_uri").def THEN Throw("TypeError", 23)
    ELSE Ok(Prop(cfg.v, "jwks_uri").v)

\* the key source's answer is a success in the sense of the design: status
\* 200 and a body of the expected shape
GoodDiscovery(resp) == resp.net /\ resp.status = 200 /\ resp.body = JsonText(DiscoveryDoc)
GoodJwks(resp) ==
    /\ resp.net /\ resp.status = 200
    /\ \E ks \in KeySets : resp.body = JsonText(JwksDoc(ks))

\* ------------------------------------------------------------------------
\* Responses of the worker
\* ------------------------------------------------------------------------
NoResp == [status |-> 0, prefix |-> "", msg |-> ""]
Response(status, prefix, msg) == [status |-> status, prefix |-> prefix, msg |-> msg]
\* line 96: the catch block
Unauthorized(err) == Response(401, "Unauthorized: ", err.msg)
\* the result of validateJWT while it has not returned
NoResult == [ok |-> FALSE, msg |-> "", line |-> 0]

\* ------------------------------------------------------------------------
\* State
\* ------------------------------------------------------------------------
VARIABLES
    jwksCache,      \* line 9
    jwksFetchedAt,  \* line 10
    clock,          \* Date.now(), in milliseconds
    pc,             \* per request: where the handler stands
    auth,           \* per request: its Authorization header
    nowL,           \* per request: `now` of getJWKS (line 14)
    jwksL,          \* per request: `jwks` of validateJWT (line 38)
    vres,           \* per request: what validateJWT returned or threw
    resp,           \* per request: the response of the handler
    src,            \* per request: how its key set was obtained
    fetches,        \* number of refreshes started (discovery requests sent)
    arrivals,       \* number of requests received
    ticks,          \* number of clock advances
    lastCall        \* history: the validateJWT call that ended most recently

vars == <<jwksCache, jwksFetchedAt, clock, pc, auth, nowL, jwksL, vres, resp, src,
          fetches, arrivals, ticks, lastCall>>

\* how a request obtained its key set: `from` is "cache" (served from the
\* fresh cache), "empty" or "stale" (a refresh, the cache being unset or too
\* old), "none" (getJWKS not called); `failed` holds when an answer of the key
\* source was a failure: no answer, a status other than 200, or a body of
\* the wrong shape
Src(from, failed) == [from |-> from, failed |-> failed]

\* the history of validateJWT calls: NoCall when the call that ended last
\* threw (or none ended yet); otherwise its token, the key set it used, the
\* Claims it returned, and whether the call before it had returned with the
\* same token and the same key set
NoCall == [ok |-> FALSE, again |-> FALSE, auth |-> NoAuth, jwks |-> Null, res |-> NoResult]
Call(prev, a, k, v) ==
    IF v.ok
    THEN [ok |-> TRUE, again |-> prev.ok /\ prev.auth = a /\ prev.jwks = k,
          auth |-> a, jwks |-> k, res |-> v]
    ELSE NoCall

\* the clock advances by half a second or to half a second before a full TTL
Deltas == {500, TTL - 500}

Init ==
    /\ jwksCache = Null
    /\ jwksFetchedAt = 0
    /\ clock = 1000 * MsPerSec
    /\ pc = [r \in Reqs |-> "idle"]
    /\ auth = [r \in Reqs |-> NoAuth]
    /\ nowL = [r \in Reqs |-> 0]
    /\ jwksL = [r \in Reqs |-> Null]
    /\ vres = [r \in Reqs |-> NoResult]
    /\ resp = [r \in Reqs |-> NoResp]
    /\ src = [r \in Reqs |-> Src("none", FALSE)]
    /\ fetches = 0
    /\ arrivals = 0
    /\ ticks = 0
    /\ lastCall = NoCall

\* the token of request r (line 75) and its parsed form
TokenOf(r) == auth[r].rest
ParsedOf(r) == ParseStage(TokenOf(r)).v

\* the handler of request r returns response rs; validateJWT ended with v
Finish(r, rs, v) ==
    /\ pc' = [pc EXCEPT ![r] = "done"]
    /\ resp' = [resp EXCEPT ![r] = rs]
    /\ vres' = [vres EXCEPT ![r] = v]

\* lines 70-76, 30-35 and 14-20: a request arrives; the handler runs up to
\* its first await, the discovery request of getJWKS, or, when the cache is
\* fresh, up to the await of getJWKS itself.  The slots are interchangeable:
\* a request takes the lowest slot that holds no request in flight.
Start(r, a) ==
    /\ pc[r] \in {"idle", "done"}
    /\ \A q \in Reqs : q < r => pc[q] \notin {"idle", "done"}
    /\ arrivals < MaxArrivals
    /\ arrivals' = arrivals + 1
    /\ auth' = [auth EXCEPT ![r] = a]
    /\ UNCHANGED <<jwksCache, jwksFetchedAt, clock, ticks>>
    /\ IF ~a.present \/ a.scheme # "Bearer "
       THEN /\ Finish(r, Response(401, "", "Missing Authorization header"), NoResult)
            /\ src' = [src EXCEPT ![r] = Src("none", FALSE)]
            /\ jwksL' = [jwksL EXCEPT ![r] = Null]
            /\ UNCHANGED <<nowL, fetches, lastCall>>
       ELSE LET parsed == ParseStage(a.rest) IN
            IF ~parsed.ok
            THEN /\ Finish(r, Unauthorized(parsed), parsed)
                 /\ src' = [src EXCEPT ![r] = Src("none", FALSE)]
                 /\ jwksL' = [jwksL EXCEPT ![r] = Null]
                 /\ lastCall' = Call(lastCall, a, Null, parsed)
                 /\ UNCHANGED <<nowL, fetches>>
            ELSE /\ resp' = [resp EXCEPT ![r] = NoResp]
                 /\ UNCHANGED lastCall
                 /\ vres' = [vres EXCEPT ![r] = NoResult]
                 /\ IF CacheFresh(jwksCache, jwksFetchedAt, clock)
                    THEN /\ pc' = [pc EXCEPT ![r] = "haveKeys"]
                         /\ jwksL' = [jwksL EXCEPT ![r] = jwksCache]
                         /\ src' = [src EXCEPT ![r] = Src("cache", FALSE)]
                         /\ UNCHANGED <<nowL, fetches>>
                    ELSE /\ pc' = [pc EXCEPT ![r] = "awaitCfg"]
                         /\ nowL' = [nowL EXCEPT ![r] = clock]
                         /\ jwksL' = [jwksL EXCEPT ![r] = Null]
                         /\ src' = [src EXCEPT ![r] =
                                Src(IF Truthy(jwksCache) THEN "stale" ELSE "empty", FALSE)]
                         /\ fetches' = fetches + 1

\* lines 20-23: the discovery answer arrives; the JWKS request is sent
CfgResponse(r, d) ==
    /\ pc[r] = "awaitCfg"
    /\ UNCHANGED <<jwksCache, jwksFetchedAt, clock, auth, jwksL, fetches, arrivals, ticks>>
    /\ src' = [src EXCEPT ![r].failed = ~GoodDiscovery(d)]
    /\ LET uri == JwksUri(d) IN
       IF ~uri.ok
       THEN /\ Finish(r, Unauthorized(uri), uri)
            /\ nowL' = [nowL EXCEPT ![r] = 0]     \* the frame of getJWKS is gone
            /\ lastCall' = Call(lastCall, auth[r], Null, uri)
       ELSE /\ pc' = [pc EXCEPT ![r] = "awaitJwks"]
            /\ UNCHANGED <<nowL, resp, vres, lastCall>>

\* a publication that writes the key set and leaves the timestamp of the
\* entry before it
JwksResponseTorn(r, j) ==
    /\ pc[r] = "awaitJwks"
    /\ UNCHANGED <<clock, auth, fetches, arrivals, ticks>>
    /\ nowL' = [nowL EXCEPT ![r] = 0]             \* the frame of getJWKS is gone
    /\ src' = [src EXCEPT ![r].failed = src[r].failed \/ ~GoodJwks(j)]
    /\ LET jwks == FetchJson(j, 23) IN
       IF ~jwks.ok
       THEN /\ Finish(r, Unauthorized(jwks), jwks)
            /\ lastCall' = Call(lastCall, auth[r], Null, jwks)
            /\ UNCHANGED <<jwksCache, jwksFetchedAt, jwksL>>
       ELSE /\ jwksCache' = jwks.v
            /\ jwksFetchedAt' = jwksFetchedAt
            /\ jwksL' = [jwksL EXCEPT ![r] = jwks.v]
            /\ pc' = [pc EXCEPT ![r] = "haveKeys"]
            /\ UNCHANGED <<resp, vres, lastCall>>

\* lines 23-26: the JWKS answer arrives and is published in the cache
JwksResponse(r, j) ==
    /\ pc[r] = "awaitJwks"
    /\ UNCHANGED <<clock, auth, fetches, arrivals, ticks>>
    /\ nowL' = [nowL EXCEPT ![r] = 0]             \* the frame of getJWKS is gone
    /\ src' = [src EXCEPT ![r].failed = src[r].failed \/ ~GoodJwks(j)]
    /\ LET jwks == FetchJson(j, 23) IN
       IF ~jwks.ok
       THEN /\ Finish(r, Unauthorized(jwks), jwks)
            /\ lastCall' = Call(lastCall, auth[r], Null, jwks)
            /\ UNCHANGED <<jwksCache, jwksFetchedAt, jwksL>>
       ELSE /\ jwksCache' = jwks.v
            /\ jwksFetchedAt' = nowL[r]
            /\ jwksL' = [jwksL EXCEPT ![r] = jwks.v]
            /\ pc' = [pc EXCEPT ![r] = "haveKeys"]
            /\ UNCHANGED <<resp, vres, lastCall>>

\* lines 39-64 and 76-88: key lookup, signature and claims checks, the
\* subject check of the handler, and the backend request
Verify(r) ==
    /\ pc[r] = "haveKeys"
    /\ UNCHANGED <<jwksCache, jwksFetchedAt, clock, auth, nowL, jwksL, src, fetches, arrivals, ticks>>
    /\ lastCall' = Call(lastCall, auth[r], jwksL[r], VerifyStage(ParsedOf(r), jwksL[r], clock))
    /\ LET claims == VerifyStage(ParsedOf(r), jwksL[r], clock) IN
       IF ~claims.ok THEN Finish(r, Unauthorized(claims), claims)
       ELSE IF SubMissing(claims.v)
       THEN Finish(r, Response(403, "", "Forbidden: Invalid token claims"), claims)
       ELSE /\ pc' = [pc EXCEPT ![r] = "forwarding"]
            /\ vres' = [vres EXCEPT ![r] = claims]
            /\ UNCHANGED resp

\* lines 88-96: the backend answers and its response is returned, or the
\* backend request fails and the catch block answers
BackendResponse(r, b) ==
    /\ pc[r] = "forwarding"
    /\ UNCHANGED <<jwksCache, jwksFetchedAt, clock, auth, nowL, jwksL, src, fetches, arrivals, ticks, lastCall>>
    /\ IF ~b.net
       THEN Finish(r, Unauthorized(Throw("TypeError", 88)), vres[r])
       ELSE Finish(r, Response(b.status, "", "backend"), vres[r])

\* time passes
Tick(d) ==
    /\ ticks < MaxTicks
    /\ ticks' = ticks + 1
    /\ clock' = clock + d
    /\ UNCHANGED <<jwksCache, jwksFetchedAt, pc, auth, nowL, jwksL, vres, resp, src,
                   fetches, arrivals, lastCall>>

\* the steps of the requests in slots R, their headers drawn from A
NextOver(R, A) ==
    \/ \E r \in R, a \in A : Start(r, a)
    \/ \E r \in R, d \in DiscoveryResponses : CfgResponse(r, d)
    \/ \E r \in R, j \in JwksResponses : JwksResponse(r, j)
    \/ \E r \in R : Verify(r)
    \/ \E r \in R, b \in BackendResponses : BackendResponse(r, b)
    \/ \E d \in Deltas : Tick(d)

\* the headers of the concurrent specification: a valid token, and one
\* signed with the rotated-in key
CoreAuths ==
    { Auth("Bearer ", Signed(H1, GP, "n1")),
      Auth("Bearer ", Signed(Header("k2"), GP, "n2")) }

\* overlapping requests
Next == NextOver(Reqs, CoreAuths)
Spec == Init /\ [][Next]_vars

\* one request after the other, over every header of Auths
NextSeq == NextOver({1}, Auths)
SpecSeq == Init /\ [][NextSeq]_vars

\* ------------------------------------------------------------------------
\* Vocabulary of the claims
\* ------------------------------------------------------------------------
Bearer(r) == auth[r].present /\ auth[r].scheme = "Bearer "
\* validateJWT was called for the request in slot r and has returned or thrown
Ended(r) == Bearer(r) /\ pc[r] \in {"forwarding", "done"}
ThrownIn(v, first, last) == ~v.ok /\ v.line \in first..last

\* the failures of the design, read off the exception of the code: by the
\* stage that throws for the stages without a message of their own, by the
\* message otherwise
MalformedToken(v) == ThrownIn(v, 30, 35)
KeySourceUnavailable(v) == ThrownIn(v, 12, 27)
UnknownKey(v) == v = Throw("No matching JWK", 40)
InvalidSignature(v) == v = Throw("Invalid signature", 58)
IssuerMismatch(v) == v = Throw("Invalid issuer", 61)
TokenExpired(v) == v = Throw("Token expired", 62)

\* getJWKS has returned a value to the request in slot r; jwksL[r] holds it
KeySetObtained(r) == Ended(r) /\ ~ThrownIn(vres[r], 12, 35)
IsObject(v) == v.t = "object"
HasKeys(jwks) == IsObject(jwks) /\ "keys" \in DOMAIN jwks.o
\* the keys of jwks whose kid is the kid of header
KeysFor(jwks, header) ==
    { i \in 1..Len(jwks.o.keys) : Prop(jwks.o.keys[i], "kid") = Prop(header, "kid") }

\* base64url decoding of a segment of one chunk: its text, whatever alphabet
DecodeUrl(seg) == seg[1].text
\* the signature segment of p holds the signature of key over the wire text
\* of its first two segments
GenuineSig(p, key) ==
    /\ Len(p.signatureB64) = 1
    /\ DecodeUrl(p.signatureB64).kind = "sig"
    /\ Val(DecodeUrl(p.signatureB64).n) = Prop(key, "n")
    /\ DecodeUrl(p.signatureB64).data = p.headerB64 \o <<Dot>> \o p.payloadB64

\* lines 39-57 accepted the signature of the request in slot r
SigAccepted(r) ==
    /\ KeySetObtained(r)
    /\ vres[r].ok \/ vres[r].line > 58
\* the payload has no subject
NoSubject(claims) == "sub" \notin DOMAIN claims.o \/ claims.o.sub = ""

\* a token of three non-empty segments
ThreeNonEmpty(token) ==
    /\ Len(Split(token)) = 3
    /\ \A i \in 1..3 : Len(Split(token)[i]) > 0
\* a well-formed token of the design: three non-empty base64url segments,
\* the first two JSON objects, the header with a kid
WellFormed(token) ==
    /\ ThreeNonEmpty(token)
    /\ \A i \in 1..2 : /\ DecodeUrl(Split(token)[i]).kind = "json"
                       /\ IsObject(DecodeUrl(Split(token)[i]).v)
    /\ "kid" \in DOMAIN DecodeUrl(Split(token)[1]).v.o

\* ------------------------------------------------------------------------
\* Claims
\* ------------------------------------------------------------------------

\* C1: refreshes are coalesced: while one refresh (discovery + JWKS fetch) is
\* in flight, no other request has a refresh in flight.
C1_Coalesced ==
    Cardinality({ r \in Reqs : pc[r] \in {"awaitCfg", "awaitJwks"} }) <= 1

\* C2: fail closed: a validate call that found the cache stale and whose
\* refresh failed (no answer, a status other than 200, a body of the wrong
\* shape) ends in KeySourceUnavailable.
C2_FailClosed ==
    \A r \in Reqs :
        (Ended(r) /\ src[r].from = "stale" /\ src[r].failed)
            => KeySourceUnavailable(vres[r])

\* C3: validate returns Claims only for a payload whose exp, in epoch
\* seconds, is strictly greater than the time of the check.
C3_ExpStrictlyFuture ==
    [][\A r \in Reqs :
          (pc[r] = "haveKeys" /\ vres'[r].ok /\ Prop(vres'[r].v, "exp").def)
              => Prop(vres'[r].v, "exp").v * MsPerSec > clock]_vars

\* C4: validate never returns Claims for a payload without exp.
C4_MissingExpRejected ==
    \A r \in Reqs : vres[r].ok => Prop(vres[r].v, "exp").def

\* C5: a token whose signature segment is not the signature, by the key the
\* header's kid names, of the wire text header.payload ends in
\* InvalidSignature.
C5_TamperedRejected ==
    \A r \in Reqs :
        (/\ KeySetObtained(r)
         /\ HasKeys(jwksL[r])
         /\ IsObject(ParsedOf(r).header)
         /\ KeysFor(jwksL[r], ParsedOf(r).header) # {}
         /\ \A i \in KeysFor(jwksL[r], ParsedOf(r).header) :
                /\ Prop(jwksL[r].o.keys[i], "kty") = Val("RSA")
                /\ ~GenuineSig(ParsedOf(r), jwksL[r].o.keys[i]))
            => InvalidSignature(vres[r])

\* C6: a parsed token whose header kid is the kid of no key of the key set
\* getJWKS returned ends in UnknownKey, thrown before any signature is
\* decoded or verified.
C6_UnknownKey ==
    \A r \in Reqs :
        (/\ KeySetObtained(r)
         /\ HasKeys(jwksL[r])
         /\ IsObject(ParsedOf(r).header)
         /\ KeysFor(jwksL[r], ParsedOf(r).header) = {})
            => UnknownKey(vres[r])

C6_Witness ==
    \E r \in Reqs :
        /\ KeySetObtained(r)
        /\ HasKeys(jwksL[r])
        /\ Len(jwksL[r].o.keys) > 1
        /\ IsObject(ParsedOf(r).header)
        /\ KeysFor(jwksL[r], ParsedOf(r).header) = {}
        /\ UnknownKey(vres[r])
        /\ resp[r] = Response(401, "Unauthorized: ", "No matching JWK")

C9_ValidTokenAccepted ==
    \A r \in Reqs :
        (Ended(r) /\ WellFormed(TokenOf(r)))
            => /\ ~MalformedToken(vres[r])
               /\ (/\ KeySetObtained(r)
                   /\ HasKeys(jwksL[r])
                   /\ KeysFor(jwksL[r], ParsedOf(r).header) # {}
                   /\ \A i \in KeysFor(jwksL[r], ParsedOf(r).header) :
                          /\ Prop(jwksL[r].o.keys[i], "kty") = Val("RSA")
                          /\ GenuineSig(ParsedOf(r), jwksL[r].o.keys[i])
                   /\ Prop(ParsedOf(r).payload, "iss") = Val(OIDC_ISSUER)
                   /\ Prop(ParsedOf(r).payload, "exp").def
                   /\ Prop(ParsedOf(r).payload, "exp").v * MsPerSec > clock
                   /\ ~NoSubject(ParsedOf(r).payload))
                      => vres[r] = Ok(ParsedOf(r).payload)

\* C10: a token that does not split into exactly three non-empty segments
\* is stopped by the parse stage with MalformedToken.
C10_SegmentsChecked ==
    \A r \in Reqs :
        (Bearer(r) /\ pc[r] # "idle" /\ ~ThreeNonEmpty(TokenOf(r)))
            => pc[r] = "done" /\ MalformedToken(vres[r])

\* the header segment decodes to a JSON object that carries no kid
HeaderLacksKid(token) ==
    /\ ThreeNonEmpty(token)
    /\ DecodeUrl(Split(token)[1]).kind = "json"
    /\ IsObject(DecodeUrl(Split(token)[1]).v)
    /\ "kid" \notin DOMAIN DecodeUrl(Split(token)[1]).v.o

\* C11: a token whose header carries no kid is stopped by the parse stage
\* with MalformedToken: no key set is fetched for it, no key is matched to
\* it and no signature is verified.
C11_MissingKidRejected ==
    \A r \in Reqs :
        (Bearer(r) /\ pc[r] # "idle" /\ HeaderLacksKid(TokenOf(r)))
            => pc[r] = "done" /\ MalformedToken(vres[r])

\* C12: a request whose key fetch met a failure of the key source (no
\* answer, a status other than 200, a body of the wrong shape) ends in
\* KeySourceUnavailable.
C12_SourceFailureReported ==
    \A r \in Reqs :
        (Ended(r) /\ src[r].from \in {"empty", "stale"} /\ src[r].failed)
            => KeySourceUnavailable(vres[r])

\* C13: a call of getJWKS that finds a cached entry younger than TTL returns
\* that entry and sends no request; a call sends a request (one refresh) only
\* when there is no entry or TTL has elapsed since the entry's timestamp.
C13_FreshCacheServed ==
    [][\A r \in Reqs :
          (pc[r] \in {"idle", "done"} /\ pc'[r] \in {"haveKeys", "awaitCfg"})
              => IF jwksCache # Null /\ clock - jwksFetchedAt < TTL
                 THEN /\ pc'[r] = "haveKeys"
                      /\ jwksL'[r] = jwksCache
                      /\ fetches' = fetches
                 ELSE /\ pc'[r] = "awaitCfg"
                      /\ fetches' = fetches + 1]_vars

C13_Witness ==
    \E r \in Reqs :
        /\ pc[r] = "haveKeys"
        /\ src[r].from = "cache"
        /\ jwksL[r] = jwksCache
        /\ HasKeys(jwksCache)
        /\ clock - jwksFetchedAt = TTL - 500

\* ------------------------------------------------------------------------
\* Progress
\* ------------------------------------------------------------------------
\* What the runtime guarantees: a handler whose awaited value is there is
\* resumed (Verify).  The answers of the issuer and of the backend are not
\* the worker's to give, and no line of the source arms a timer or passes
\* an AbortSignal to fetch: no step of the worker ends a pending request.
Fairness == \A r \in Reqs : WF_vars(Verify(r))
SpecLive == Init /\ [][NextSeq]_vars /\ Fairness

\* C14: every validate call terminates, whether or not the issuer answers.
C14_ValidateTerminates ==
    \A r \in Reqs : (pc[r] \in {"awaitCfg", "awaitJwks", "haveKeys"}) ~> (pc[r] \in {"forwarding", "done"})

\* the token of request r carries an exp that lies after the present time
Unexpired(r) ==
    /\ Prop(ParsedOf(r).payload, "exp").def
    /\ clock < Prop(ParsedOf(r).payload, "exp").v * MsPerSec

\* C15: a validate call that follows one that returned Claims, with the
\* same token and the same key set, the token still unexpired, returns the
\* same Claims.
C15_Idempotent ==
    [][\A r \in Reqs :
          ( /\ pc[r] = "haveKeys" /\ pc'[r] # "haveKeys"
            /\ lastCall.ok /\ lastCall.auth = auth[r] /\ lastCall.jwks = jwksL[r]
            /\ Unexpired(r) )
              => vres'[r] = lastCall.res]_vars

\* the second of two such calls has returned, half a second after the first
\* or later, with the Claims of the first
C15_Witness ==
    /\ lastCall.ok /\ lastCall.again
    /\ ticks >= 1
    /\ \E r \in Reqs :
          /\ Ended(r) /\ auth[r] = lastCall.auth /\ vres[r] = lastCall.res
          /\ src[r].from = "cache"
          /\ Unexpired(r)

\* the claims checks of lines 61-62 ran for the call that ended with v
ClaimsChecked(v) == v.ok \/ v.line >= 61
\* the key set of request r holds a key with the kid of its token under
\* which the signature of the token is genuine
SigVerified(r) ==
    /\ HasKeys(jwksL[r])
    /\ \E i \in KeysFor(jwksL[r], ParsedOf(r).header) :
          GenuineSig(ParsedOf(r), jwksL[r].o.keys[i])
IssOf(r) == Prop(ParsedOf(r).payload, "iss")

\* C16: the stages run in the order parse, key-set fetch, signature, claims
\* (iss, exp, sub), and the first failure ends the call: a parse failure
\* comes before any key-set fetch, a failure of the key source before any
\* key set is used, claims are checked only under a verified signature, exp
\* only after iss has matched, and sub only after validate returned Claims.
C16_StageOrder ==
    \A r \in Reqs : Ended(r) =>
        /\ MalformedToken(vres[r]) => (src[r].from = "none" /\ jwksL[r] = Null)
        /\ ~MalformedToken(vres[r]) => (ParseStage(TokenOf(r)).ok /\ src[r].from # "none")
        /\ KeySourceUnavailable(vres[r]) => jwksL[r] = Null
        /\ ClaimsChecked(vres[r]) => SigVerified(r)
        /\ (TokenExpired(vres[r]) \/ vres[r].ok) => IssOf(r) = Val(OIDC_ISSUER)
        /\ resp[r].status = 403 => vres[r].ok

\* a token with a genuine signature, another issuer and an exp in the
\* past was turned away for its issuer
C16_Witness ==
    \E r \in Reqs :
        /\ Ended(r) /\ IssuerMismatch(vres[r])
        /\ SigVerified(r)
        /\ Prop(ParsedOf(r).payload, "exp").def
        /\ Prop(ParsedOf(r).payload, "exp").v * MsPerSec < clock

\* the cache entry changes in this step
CacheWritten == jwksCache' # jwksCache \/ jwksFetchedAt' # jwksFetchedAt

\* C17: the cache entry is a consistent pair under any interleaving: every
\* step that changes the key set or the timestamp writes both, the key set
\* one refresh fetched and the time that same refresh started at.
C17_ConsistentPair ==
    [][CacheWritten =>
          \E r \in Reqs :
              /\ pc[r] = "awaitJwks" /\ pc'[r] = "haveKeys"
              /\ jwksCache' = jwksL'[r]
              /\ jwksFetchedAt' = nowL[r]]_vars

\* two refreshes overlap; one has published its pair, a later reader was
\* served that key set, the other refresh is still in flight
C17_Witness ==
    \E r, q \in Reqs :
        /\ pc[q] = "awaitJwks"
        /\ pc[r] = "haveKeys" /\ src[r].from \in {"empty", "stale"}
        /\ jwksL[r] = jwksCache
        /\ jwksFetchedAt >= 1000 * MsPerSec

\* C18: the cache entry is replaced only by a successful fetch: a refresh
\* whose discovery or JWKS request met a network error, a status other than
\* 200 or a body of the wrong shape leaves both fields of the cache as they
\* were.
C18_OnlySuccessPublishes ==
    [][CacheWritten =>
          \E r \in Reqs : pc[r] = "awaitJwks" /\ ~src'[r].failed]_vars

\* the handler of request r has sent the backend request of line 88
BackendCalled(r) ==
    \/ pc[r] = "forwarding"
    \/ pc[r] = "done" /\ resp[r].msg = "backend"

\* C19: the backend is called only after validate returned, for the bearer
\* token of the same request, Claims with a non-empty sub; never for a
\* request without a Bearer header or whose validation failed.
C19_ForwardOnlyValidated ==
    \A r \in Reqs :
        BackendCalled(r) =>
            /\ Bearer(r)
            /\ vres[r].ok
            /\ ParseStage(TokenOf(r)).ok
            /\ vres[r].v = ParsedOf(r).payload
            /\ ~NoSubject(vres[r].v)

\* the backend has answered a request whose token validated
C19_Witness ==
    \E r \in Reqs :
        /\ pc[r] = "done" /\ resp[r].msg = "backend"
        /\ vres[r].ok /\ ~NoSubject(vres[r].v)

\* C20: under any interleaving of overlapping refreshes the timestamp of
\* the cache never decreases.
C20_TimestampMonotonic ==
    [][jwksFetchedAt' >= jwksFetchedAt]_vars

====
